---- MODULE Spec2Model ----
(***************************************************************************)
(* Model of rs-git-status2arrow-ipc-stream: the status classifier, the     *)
(* row assembler, the dictionary encoder and the stream writer of          *)
(* src/lib.rs, the program entry point of                                  *)
(* src/bin/git-status2arrow-ipc-stream.rs, and the line-delimited JSON     *)
(* writer status2json2writer.                                              *)
(*                                                                         *)
(* Strings are tuples of one-character strings (<<"a", ".", "t">>), so     *)
(* that extension extraction and lossy conversion operate on characters.   *)
(* A nullable column entry is <<>> (null) or <<v>> (the value v).          *)
(***************************************************************************)
EXTENDS Integers, Sequences, FiniteSets, TLC

VARIABLES
    pc,                 \* position of the running program / function
    items,              \* the raw records collected so far (Vec<GixStatusItem>)
    idx,                \* 1-based position of the `for item in items` loop
    path_builder,       \* StringBuilder for column path
    extension_builder,  \* StringBuilder for column extension
    size_builder,       \* UInt64Builder for column size
    mtime_builder,      \* TimestampSecondBuilder for last_modification_time
    batch,              \* <<>> until RecordBatch::try_new succeeded, then <<b>>
    wtr,                \* what has been written to the sink, in order
    calls,              \* every external operation attempted, in order
    stats               \* per assembled row, the answer of std::fs::metadata

vars == <<pc, items, idx, path_builder, extension_builder, size_builder,
          mtime_builder, batch, wtr, calls, stats>>

(***************************************************************************)
(* Bounds of the model.                                                    *)
(***************************************************************************)
\* Longest sequence of raw records the status provider yields.
MaxItems == 3
\* Longest path (in characters) given to the extension extraction.
MaxPathLen == 5

(***************************************************************************)
(* Generic helpers.                                                        *)
(***************************************************************************)
Null == <<>>
Some(v) == <<v>>
Range(s) == {s[i] : i \in 1..Len(s)}
SeqsUpTo(S, n) == UNION {[1..k -> S] : k \in 0..n}

(***************************************************************************)
(* Characters and paths.  InvalidByte stands for a byte that is not valid  *)
(* UTF-8; Replacement is U+FFFD, which lossy conversion puts in its place. *)
(***************************************************************************)
InvalidByte == "\\xFF"
Replacement == "U+FFFD"
Dot == "."
Slash == "/"
Alphabet == {"a", Dot, Slash, InvalidByte}

\* 1-based position of the last occurrence of c in s, 0 when there is none.
LastIndexOf(s, c) ==
    LET hits == {i \in 1..Len(s) : s[i] = c}
    IN  IF hits = {} THEN 0 ELSE CHOOSE i \in hits : \A j \in hits : j <= i

\* Path::file_name for a relative path without "." / ".." components:
\* what follows the last '/'.
FileName(p) == SubSeq(p, LastIndexOf(p, Slash) + 1, Len(p))

\* A relative path as git reports it: non-empty components separated by
\* '/', none of them "." or "..".
IsRelaPath(p) ==
    /\ Len(p) > 0
    /\ p[1] # Slash
    /\ p[Len(p)] # Slash
    /\ \A i \in 1..(Len(p) - 1) : ~(p[i] = Slash /\ p[i + 1] = Slash)
    /\ \A i \in 1..Len(p) :
         \A j \in i..Len(p) :
            ( /\ (i = 1 \/ p[i - 1] = Slash)
              /\ (j = Len(p) \/ p[j + 1] = Slash)
              /\ \A k \in i..j : p[k] # Slash )
            => SubSeq(p, i, j) \notin {<<Dot>>, <<Dot, Dot>>}

\* BStr::to_string(): lossy conversion, invalid bytes become U+FFFD.
ToStringLossy(p) == [i \in 1..Len(p) |-> IF p[i] = InvalidByte THEN Replacement ELSE p[i]]

\* OsStr::to_str(): None when the bytes are not valid UTF-8.
ToStr(s) == IF InvalidByte \in Range(s) THEN Null ELSE Some(s)

\* Path::extension() of the final component: None when it has no '.', when
\* the only '.' is its first character; otherwise what follows the last '.'.
PathExtension(p) ==
    LET file == FileName(p)
        d    == LastIndexOf(file, Dot)
    IN  IF file = <<Dot, Dot>> THEN Null
        ELSE IF d = 0 THEN Null
        ELSE IF d = 1 THEN Null
        ELSE Some(SubSeq(file, d + 1, Len(file)))

\* Variant of Extension: whatever follows the last '.' of the final
\* component, dot-files and invalid UTF-8 included.
ExtensionBroken(p) ==
    LET file == FileName(p)
        d    == LastIndexOf(file, Dot)
    IN  IF d = 0 THEN <<>> ELSE SubSeq(file, d + 1, Len(file))

\* lib.rs 180-186 and 211-217:
\*   path.to_path().ok().and_then(|p| p.extension())
\*       .and_then(|s| s.to_str()).unwrap_or("")
Extension(p) ==
    LET e == PathExtension(p)
    IN  IF e = Null THEN <<>>
        ELSE IF ToStr(e[1]) = Null THEN <<>>
        ELSE ToStr(e[1])[1]

(***************************************************************************)
(* Raw records (gix::status::Item) and the classifier.                     *)
(***************************************************************************)
IndexWorktree == "IndexWorktree"
TreeIndex == "TreeIndex"

\* gix Summary kinds of a working-copy record; NoSummary is Option::None.
NoSummary == "None"
Summaries == {"Removed", "Added", "Modified", "TypeChange", "Renamed",
              "Copied", "IntentToAdd", "Conflict"}
\* gix index Change kinds of a committed-tree record.
Changes == {"Addition", "Deletion", "Modification", "Rewrite"}

\* enum StatusDto
StatusDto == {"Removed", "Added", "Modified", "TypeChange", "Renamed",
              "Copied", "IntentToAdd", "Conflict", "Untracked"}

RawRecords(paths) ==
    [variant : {IndexWorktree}, kind : Summaries \cup {NoSummary}, path : paths]
    \cup [variant : {TreeIndex}, kind : Changes, path : paths]

\* Variant of StatusOf: the arms of Modification and Rewrite swapped.
StatusOfSwapped(item) ==
    IF item.variant = IndexWorktree
    THEN IF item.kind = NoSummary THEN "Untracked" ELSE item.kind
    ELSE CASE item.kind = "Addition" -> "Added"
           [] item.kind = "Deletion" -> "Removed"
           [] item.kind = "Modification" -> "Renamed"
           [] item.kind = "Rewrite" -> "Modified"

\* impl From<&GixStatusItem> for StatusItemDto: the status of a record.
StatusOf(item) ==
    IF item.variant = IndexWorktree
    THEN CASE item.kind = "Removed" -> "Removed"
           [] item.kind = "Added" -> "Added"
           [] item.kind = "Modified" -> "Modified"
           [] item.kind = "TypeChange" -> "TypeChange"
           [] item.kind = "Renamed" -> "Renamed"
           [] item.kind = "Copied" -> "Copied"
           [] item.kind = "IntentToAdd" -> "IntentToAdd"
           [] item.kind = "Conflict" -> "Conflict"
           [] item.kind = NoSummary -> "Untracked"
    ELSE CASE item.kind = "Addition" -> "Added"
           [] item.kind = "Deletion" -> "Removed"
           [] item.kind = "Modification" -> "Modified"
           [] item.kind = "Rewrite" -> "Renamed"

\* impl From<&GixStatusItem> for StatusItemDto: the DTO of a record.
StatusItemDtoFrom(item) ==
    [variant |-> item.variant, path |-> ToStringLossy(item.path), status |-> StatusOf(item)]

(***************************************************************************)
(* Schema, columns, dictionary encoding and batch construction.            *)
(***************************************************************************)
\* get_arrow_schema(): the six fields, in order.
Schema ==
    << [name |-> "path", type |-> "Utf8", nullable |-> FALSE],
       [name |-> "status", type |-> "Dictionary(Int32,Utf8)", nullable |-> FALSE],
       [name |-> "item_type", type |-> "Dictionary(Int32,Utf8)", nullable |-> FALSE],
       [name |-> "extension", type |-> "Utf8", nullable |-> TRUE],
       [name |-> "size", type |-> "UInt64", nullable |-> TRUE],
       [name |-> "last_modification_time", type |-> "Timestamp(Second)", nullable |-> TRUE] >>

\* StringDictionaryBuilder as used by DictionaryArray::from_iter: a label is
\* looked up in the dictionary and inserted at its end when it is new.
RECURSIVE DictValues(_)
DictValues(labels) ==
    IF labels = <<>> THEN <<>>
    ELSE LET front == DictValues(SubSeq(labels, 1, Len(labels) - 1))
             last  == labels[Len(labels)]
         IN  IF last \in Range(front) THEN front ELSE Append(front, last)

\* The Int32 key of a label: its 0-based position in the dictionary.
DictKey(values, label) == (CHOOSE k \in 1..Len(values) : values[k] = label) - 1

\* Variant of DictionaryArrayFromIter: every row gets a dictionary entry of
\* its own.
DictionaryArrayNoDedup(labels) ==
    [values |-> labels, keys |-> [i \in 1..Len(labels) |-> i - 1]]

\* DictionaryArray::<Int32Type>::from_iter(labels)
DictionaryArrayFromIter(labels) ==
    LET values == DictValues(labels)
    IN  [values |-> values,
         keys   |-> [i \in 1..Len(labels) |-> DictKey(values, labels[i])]]

\* lib.rs 228-240: the status labels, format!("{:?}", status) of each DTO.
StatusValues(its) == [i \in 1..Len(its) |-> StatusItemDtoFrom(its[i]).status]

\* lib.rs 242-251: the family labels.
ItemTypeValues(its) ==
    [i \in 1..Len(its) |-> IF its[i].variant = IndexWorktree THEN "IndexWorktree" ELSE "TreeIndex"]

\* Number of rows of a column (a plain column or a dictionary array).
ColumnLen(name, col) ==
    IF name \in {"status", "item_type"} THEN Len(col.keys) ELSE Len(col)

\* RecordBatch::try_new validation: every column has the same length and a
\* field that is not nullable holds no null (dictionary keys built by
\* from_iter over &str are never null).
TryNewValid(cols) ==
    /\ \A f \in Range(Schema) : ColumnLen(f.name, cols[f.name]) = Len(cols.path)
    /\ \A f \in Range(Schema) :
         (~f.nullable /\ f.name \notin {"status", "item_type"})
            => \A i \in 1..Len(cols[f.name]) : cols[f.name][i] # Null

(***************************************************************************)
(* Filesystem metadata.  A modification time is secs + frac/2 seconds      *)
(* relative to the epoch; it lies before the epoch exactly when secs < 0.  *)
(***************************************************************************)
MetadataErr == [ok |-> FALSE, len |-> 0, modified |-> "Err", mtime |-> [secs |-> 0, frac |-> 0]]

\* What std::fs::metadata can answer for a path.
MetadataOutcomes ==
    {MetadataErr}
    \cup [ok : {TRUE}, len : {42}, modified : {"Err"}, mtime : {[secs |-> 0, frac |-> 0]}]
    \cup [ok : {TRUE}, len : {42}, modified : {"Ok"},
          mtime : {[secs |-> -1, frac |-> 1], [secs |-> 7, frac |-> 1]}]

\* Variant of SizeEntry: a failed read gives size 0 instead of null.
SizeEntryZero(m) == IF m.ok THEN Some(m.len) ELSE Some(0)

\* lib.rs 187-188, 198-199: the size entry of a working-copy row.
SizeEntry(m) == IF m.ok THEN Some(m.len) ELSE Null

\* Variant of MtimeEntry: a time before the epoch is stored as negative
\* seconds.
MtimeEntryNegative(m) ==
    IF m.ok /\ m.modified = "Ok" THEN Some(m.mtime.secs) ELSE Null

\* lib.rs 189-197, 200: the time entry of a working-copy row;
\* duration_since(UNIX_EPOCH) fails before the epoch, as_secs drops the
\* fraction.
MtimeEntry(m) ==
    IF m.ok
    THEN IF m.modified = "Ok"
         THEN IF m.mtime.secs >= 0 THEN Some(m.mtime.secs) ELSE Null
         ELSE Null
    ELSE Null

\* The entry of `stats` for a row that issues no metadata read.
NoStat == [ok |-> FALSE, len |-> 0, modified |-> "None", mtime |-> [secs |-> 0, frac |-> 0]]

(***************************************************************************)
(* Inputs.                                                                 *)
(***************************************************************************)
\* The path "a/b.txt".
PathABTxt == <<"a", Slash, "b", Dot, "t", "x", "t">>

\* Records the status provider yields in the program run: records of both
\* families at two paths, two of them with the same path and status.
MainRecords ==
    { [variant |-> IndexWorktree, kind |-> NoSummary, path |-> PathABTxt],
      [variant |-> IndexWorktree, kind |-> "Added", path |-> PathABTxt],
      [variant |-> TreeIndex, kind |-> "Addition", path |-> PathABTxt],
      [variant |-> TreeIndex, kind |-> "Rewrite", path |-> <<"x">>] }

\* Every relative path of at most MaxPathLen characters over Alphabet.
BoundedPaths == {p \in SeqsUpTo(Alphabet, MaxPathLen) : IsRelaPath(p)}

\* One record, of either family, for every bounded path, and a record of
\* every one of the thirteen shapes at "a/b.txt".
BoundedRecords ==
    [variant : {IndexWorktree}, kind : {NoSummary}, path : BoundedPaths]
    \cup [variant : {TreeIndex}, kind : {"Rewrite"}, path : BoundedPaths]
    \cup RawRecords({PathABTxt})

\* An entry of the log of external operations.
Call(op, row, ok) == [op |-> op, row |-> row, ok |-> ok]

\* Messages on the sink of the stream writer.
SchemaMessage == [msg |-> "schema", rows |-> 0, body |-> Some(Schema)]
BatchMessage(b) == [msg |-> "batch", rows |-> Len(b.path), body |-> Some(b)]
EndMarker == [msg |-> "eos", rows |-> 0, body |-> Null]
\* Bytes of a message whose write failed part-way.
PartialBytes == [msg |-> "partial", rows |-> 0, body |-> Null]

(***************************************************************************)
(* Initial states.                                                         *)
(***************************************************************************)
InitCommon ==
    /\ idx = 1
    /\ path_builder = <<>>
    /\ extension_builder = <<>>
    /\ size_builder = <<>>
    /\ mtime_builder = <<>>
    /\ batch = Null
    /\ wtr = <<>>
    /\ calls = <<>>
    /\ stats = <<>>

\* bin/git-status2arrow-ipc-stream.rs: main starts with discovery.
Init ==
    /\ pc = "discover"
    /\ items = <<>>
    /\ InitCommon

\* status2arrow_ipc_stream_writer called with a slice of one record.
InitWriter ==
    /\ pc = "loop"
    /\ items \in {<<r>> : r \in BoundedRecords}
    /\ InitCommon

\* status2json2writer about to be called on a fresh writer.
InitJson ==
    /\ pc = "json"
    /\ items = <<>>
    /\ InitCommon

(***************************************************************************)
(* main: acquisition (bin/git-status2arrow-ipc-stream.rs 6-11).            *)
(***************************************************************************)
writerVars == <<idx, path_builder, extension_builder, size_builder, mtime_builder,
                batch, wtr, stats>>

\* An acquisition step that fails: `?` returns the error from main.
AcquisitionErr(op) ==
    /\ pc' = "error"
    /\ calls' = Append(calls, Call(op, 0, FALSE))
    /\ UNCHANGED <<items, writerVars>>

AcquisitionOk(op, to) ==
    /\ pc' = to
    /\ calls' = Append(calls, Call(op, 0, TRUE))
    /\ UNCHANGED <<items, writerVars>>

\* GitDir(".").discover()?
DiscoverOk == pc = "discover" /\ AcquisitionOk("discover", "status")
DiscoverErr == pc = "discover" /\ AcquisitionErr("discover")

\* git_repo.status(gix::progress::Discard)?
StatusOk == pc = "status" /\ AcquisitionOk("status", "iter")
StatusErr == pc = "status" /\ AcquisitionErr("status")

\* GitStatus(status).iter()?
IterOk == pc = "iter" /\ AcquisitionOk("iter", "collect")
IterErr == pc = "iter" /\ AcquisitionErr("iter")

\* collect::<Result<Vec<_>, _>>(): the iterator yields Some(Ok(item)).
CollectItem ==
    /\ pc = "collect"
    /\ Len(items) < MaxItems
    /\ \E r \in MainRecords : items' = Append(items, r)
    /\ calls' = Append(calls, Call("next", Len(items) + 1, TRUE))
    /\ UNCHANGED <<pc, writerVars>>

\* Variant of CollectErr: the failed record is skipped and the records
\* retrieved so far are encoded.
CollectErrSkipped ==
    /\ pc = "collect"
    /\ calls' = Append(calls, Call("next", Len(items) + 1, FALSE))
    /\ pc' = "loop"
    /\ UNCHANGED <<items, writerVars>>

\* The iterator yields Some(Err(e)): collect stops, `?` returns the error.
CollectErr ==
    /\ pc = "collect"
    /\ calls' = Append(calls, Call("next", Len(items) + 1, FALSE))
    /\ pc' = "error"
    /\ UNCHANGED <<items, writerVars>>

\* The iterator yields None: main calls status2arrow_ipc_stream_writer.
CollectEnd ==
    /\ pc = "collect"
    /\ pc' = "loop"
    /\ UNCHANGED <<items, calls, writerVars>>

(***************************************************************************)
(* status2arrow_ipc_stream_writer (lib.rs 162-271).                        *)
(***************************************************************************)
\* lib.rs 177-202: one iteration of the loop on a working-copy record.
LoopIndexWorktree ==
    /\ pc = "loop"
    /\ idx <= Len(items)
    /\ items[idx].variant = IndexWorktree
    /\ \E m \in MetadataOutcomes :
         /\ calls' = Append(calls, Call("metadata", idx, m.ok))
         /\ stats' = Append(stats, m)
         /\ size_builder' = Append(size_builder, SizeEntry(m))
         /\ mtime_builder' = Append(mtime_builder, MtimeEntry(m))
    /\ path_builder' = Append(path_builder, Some(ToStringLossy(items[idx].path)))
    /\ extension_builder' = Append(extension_builder, Some(Extension(items[idx].path)))
    /\ idx' = idx + 1
    /\ UNCHANGED <<pc, items, batch, wtr>>

\* Variant of LoopTreeIndex: the path is taken from the first record.
LoopTreeIndexFirstPath ==
    /\ pc = "loop"
    /\ idx <= Len(items)
    /\ items[idx].variant = TreeIndex
    /\ path_builder' = Append(path_builder, Some(ToStringLossy(items[1].path)))
    /\ extension_builder' = Append(extension_builder, Some(Extension(items[1].path)))
    /\ size_builder' = Append(size_builder, Null)
    /\ mtime_builder' = Append(mtime_builder, Null)
    /\ stats' = Append(stats, NoStat)
    /\ idx' = idx + 1
    /\ UNCHANGED <<pc, items, batch, wtr, calls>>

\* lib.rs 203-220: one iteration of the loop on a committed-tree record.
LoopTreeIndex ==
    /\ pc = "loop"
    /\ idx <= Len(items)
    /\ items[idx].variant = TreeIndex
    /\ path_builder' = Append(path_builder, Some(ToStringLossy(items[idx].path)))
    /\ extension_builder' = Append(extension_builder, Some(Extension(items[idx].path)))
    /\ size_builder' = Append(size_builder, Null)
    /\ mtime_builder' = Append(mtime_builder, Null)
    /\ stats' = Append(stats, NoStat)
    /\ idx' = idx + 1
    /\ UNCHANGED <<pc, items, batch, wtr, calls>>

\* lib.rs 223-264: finish the builders, dictionary-encode the two label
\* columns and build the batch; `?` returns the error of try_new.
Columns ==
    [path |-> path_builder,
     status |-> DictionaryArrayFromIter(StatusValues(items)),
     item_type |-> DictionaryArrayFromIter(ItemTypeValues(items)),
     extension |-> extension_builder,
     size |-> size_builder,
     last_modification_time |-> mtime_builder]

BuildBatch ==
    /\ pc = "loop"
    /\ idx > Len(items)
    /\ IF TryNewValid(Columns)
       THEN /\ batch' = Some(Columns)
            /\ pc' = "try_new"
       ELSE /\ batch' = batch
            /\ pc' = "error"
    /\ calls' = Append(calls, Call("batch", 0, TryNewValid(Columns)))
    /\ UNCHANGED <<items, idx, path_builder, extension_builder, size_builder,
                   mtime_builder, wtr, stats>>

sinkFrame == <<items, idx, path_builder, extension_builder, size_builder,
               mtime_builder, batch, stats>>

\* A writer step that succeeds and puts its message on the sink.
SinkOk(op, message, to) ==
    /\ wtr' = Append(wtr, message)
    /\ calls' = Append(calls, Call(op, 0, TRUE))
    /\ pc' = to
    /\ UNCHANGED sinkFrame

\* A writer step that fails, after none or some of its bytes reached the
\* sink; `?` returns the error.
SinkErr(op) ==
    /\ wtr' \in {wtr, Append(wtr, PartialBytes)}
    /\ calls' = Append(calls, Call(op, 0, FALSE))
    /\ pc' = "error"
    /\ UNCHANGED sinkFrame

\* Variant of SinkErr: the error is ignored and the next step runs.
SinkErrIgnored(op, to) ==
    /\ wtr' \in {wtr, Append(wtr, PartialBytes)}
    /\ calls' = Append(calls, Call(op, 0, FALSE))
    /\ pc' = to
    /\ UNCHANGED sinkFrame

\* Variant of TryNewOk: the schema message is not written.
TryNewDeferred ==
    /\ pc = "try_new"
    /\ calls' = Append(calls, Call("try_new", 0, TRUE))
    /\ pc' = "write"
    /\ UNCHANGED <<wtr, sinkFrame>>

\* lib.rs 266: StreamWriter::try_new(wtr, &schema) writes the schema message.
TryNewOk == pc = "try_new" /\ SinkOk("try_new", SchemaMessage, "write")
TryNewErr == pc = "try_new" /\ SinkErr("try_new")

\* lib.rs 267: writer.write(&batch) writes the body message.
WriteOk == pc = "write" /\ SinkOk("write", BatchMessage(batch[1]), "finish")
\* Variant of WriteErr: the end marker is written after the failed body.
WriteErrIgnored == pc = "write" /\ SinkErrIgnored("write", "finish")
WriteErr == pc = "write" /\ SinkErr("write")

\* lib.rs 268-270: writer.finish() writes the end marker, then Ok(()).
FinishOk == pc = "finish" /\ SinkOk("finish", EndMarker, "done")
FinishErr == pc = "finish" /\ SinkErr("finish")

(***************************************************************************)
(* status2json2writer (lib.rs 129-137).                                    *)
(***************************************************************************)
Quote == "\""

\* Variant of JsonText: serde's default, externally tagged representation.
JsonTextTagged(dto) ==
    <<"{", Quote, dto.variant, Quote, ":", "{", Quote, "path", Quote, ":", Quote>> \o dto.path
    \o <<Quote, ",", Quote, "status", Quote, ":", Quote, dto.status, Quote, "}", "}">>

\* serde_json of StatusItemDto, #[serde(untagged)]: the fields of the
\* variant, without the variant's name.
JsonText(dto) ==
    <<"{", Quote, "path", Quote, ":", Quote>> \o dto.path
    \o <<Quote, ",", Quote, "status", Quote, ":", Quote, dto.status, Quote, "}">>

Newline == "\n"

jsonFrame == <<idx, path_builder, extension_builder, size_builder, mtime_builder,
               batch, stats>>

\* Both writes succeed: the JSON text, then the newline.
Status2JsonOk ==
    /\ pc = "json"
    /\ Len(items) < MaxItems
    /\ \E r \in MainRecords :
         /\ wtr' = wtr \o JsonText(StatusItemDtoFrom(r)) \o <<Newline>>
         /\ items' = Append(items, r)
    /\ calls' = Append(calls, Call("status2json", Len(items) + 1, TRUE))
    /\ UNCHANGED <<pc, jsonFrame>>

\* serde_json::to_writer fails after a proper prefix of the text; `?`
\* returns the error and no newline is written.
Status2JsonErrToWriter ==
    /\ pc = "json"
    /\ Len(items) < MaxItems
    /\ \E r \in MainRecords :
         \E k \in 0..(Len(JsonText(StatusItemDtoFrom(r))) - 1) :
            wtr' = wtr \o SubSeq(JsonText(StatusItemDtoFrom(r)), 1, k)
    /\ calls' = Append(calls, Call("status2json", Len(items) + 1, FALSE))
    /\ pc' = "error"
    /\ UNCHANGED <<items, jsonFrame>>

\* writeln! fails after the text was written; `?` returns the error.
Status2JsonErrNewline ==
    /\ pc = "json"
    /\ Len(items) < MaxItems
    /\ \E r \in MainRecords : wtr' = wtr \o JsonText(StatusItemDtoFrom(r))
    /\ calls' = Append(calls, Call("status2json", Len(items) + 1, FALSE))
    /\ pc' = "error"
    /\ UNCHANGED <<items, jsonFrame>>

NextJson ==
    \/ Status2JsonOk
    \/ Status2JsonErrToWriter
    \/ Status2JsonErrNewline

NextWriter ==
    \/ LoopIndexWorktree
    \/ LoopTreeIndex
    \/ BuildBatch
    \/ TryNewOk
    \/ TryNewErr
    \/ WriteOk
    \/ WriteErr
    \/ FinishOk
    \/ FinishErr

Next ==
    \/ DiscoverOk
    \/ DiscoverErr
    \/ StatusOk
    \/ StatusErr
    \/ IterOk
    \/ IterErr
    \/ CollectItem
    \/ CollectErr
    \/ CollectEnd
    \/ NextWriter

\* The program: main of bin/git-status2arrow-ipc-stream.rs.
Spec == Init /\ [][Next]_vars

\* status2arrow_ipc_stream_writer on a slice of one record: any bounded path,
\* any of the thirteen shapes.
SpecWriter == InitWriter /\ [][NextWriter]_vars

\* status2json2writer called on up to MaxItems records, one after another.
SpecJson == InitJson /\ [][NextJson]_vars

(***************************************************************************)
(* Vocabulary of the properties.                                           *)
(***************************************************************************)
\* The label a dictionary column holds for row i.
LabelAt(col, i) == col.values[col.keys[i] + 1]

\* The external operations attempted so far, by name.
CallsOf(op) == {k \in 1..Len(calls) : calls[k].op = op}
FailedCalls == {k \in 1..Len(calls) : ~calls[k].ok}
AcquisitionOps == {"discover", "status", "iter", "next"}
SinkOps == {"try_new", "write", "finish"}

\* The slice of wtr strictly between positions a and b.
Between(a, b) == SubSeq(wtr, a + 1, b - 1)
\* Positions of the newlines in wtr, and 0.
LineEnds == {0} \cup {k \in 1..Len(wtr) : wtr[k] = Newline}
\* The n-th line of wtr without its newline (n >= 1).
LineEndOf(n) == CHOOSE k \in LineEnds : Cardinality({j \in LineEnds : j < k}) = n
Line(n) == Between(LineEndOf(n - 1), LineEndOf(n))
\* s occurs in t as a contiguous slice.
Occurs(s, t) == \E a \in 0..(Len(t) - Len(s)) : SubSeq(t, a + 1, a + Len(s)) = s

(***************************************************************************)
(* C1: the batch has one row per record, all six columns have that length, *)
(* and row i holds the values derived from record i (nothing dropped,      *)
(* duplicated, merged or reordered).                                       *)
(***************************************************************************)
C1_RowsFollowRecords ==
    batch # Null =>
        LET b == batch[1]
            n == Len(items)
        IN  /\ Len(b.path) = n
            /\ Len(b.status.keys) = n
            /\ Len(b.item_type.keys) = n
            /\ Len(b.extension) = n
            /\ Len(b.size) = n
            /\ Len(b.last_modification_time) = n
            /\ \A i \in 1..n :
                 /\ b.path[i] = Some(ToStringLossy(items[i].path))
                 /\ LabelAt(b.status, i) = StatusOf(items[i])
                 /\ LabelAt(b.item_type, i) = items[i].variant
                 /\ b.extension[i] = Some(Extension(items[i].path))
                 /\ b.size[i] =
                       IF items[i].variant = IndexWorktree THEN SizeEntry(stats[i]) ELSE Null
                 /\ b.last_modification_time[i] =
                       IF items[i].variant = IndexWorktree THEN MtimeEntry(stats[i]) ELSE Null

\* Three records were assembled, the first two differing in path, family
\* and status, the third equal to the first.
C1_Witness ==
    /\ batch # Null
    /\ Len(items) = 3
    /\ items[1].path # items[2].path
    /\ items[1].variant = IndexWorktree
    /\ items[2].variant = TreeIndex
    /\ StatusOf(items[1]) # StatusOf(items[2])
    /\ items[3] = items[1]
    /\ batch[1].path = <<Some(items[1].path), Some(items[2].path), Some(items[1].path)>>

(***************************************************************************)
(* C2: the classifier is total and agrees with the table of the thirteen   *)
(* record shapes; the status and item_type labels of a row in the batch    *)
(* are the table's pair for that row's record.                             *)
(***************************************************************************)
ClassifierTable ==
    { <<IndexWorktree, "Removed", "Removed">>,
      <<IndexWorktree, "Added", "Added">>,
      <<IndexWorktree, "Modified", "Modified">>,
      <<IndexWorktree, "TypeChange", "TypeChange">>,
      <<IndexWorktree, "Renamed", "Renamed">>,
      <<IndexWorktree, "Copied", "Copied">>,
      <<IndexWorktree, "IntentToAdd", "IntentToAdd">>,
      <<IndexWorktree, "Conflict", "Conflict">>,
      <<IndexWorktree, "None", "Untracked">>,
      <<TreeIndex, "Addition", "Added">>,
      <<TreeIndex, "Deletion", "Removed">>,
      <<TreeIndex, "Modification", "Modified">>,
      <<TreeIndex, "Rewrite", "Renamed">> }

C2_ClassifierMatchesTable ==
    /\ \A i \in 1..Len(items) :
         LET dto == StatusItemDtoFrom(items[i])
         IN  /\ dto.status \in StatusDto
             /\ <<dto.variant, items[i].kind, dto.status>> \in ClassifierTable
    /\ batch # Null =>
         \A i \in 1..Len(items) :
            /\ LabelAt(batch[1].status, i) \in StatusDto
            /\ LabelAt(batch[1].item_type, i) \in {"IndexWorktree", "TreeIndex"}
            /\ <<LabelAt(batch[1].item_type, i), items[i].kind, LabelAt(batch[1].status, i)>>
                  \in ClassifierTable

\* A committed-tree Rewrite was classified and its labels were written to
\* the sink.
C2_Witness ==
    /\ pc = "done"
    /\ items = << [variant |-> TreeIndex, kind |-> "Rewrite", path |-> PathABTxt] >>
    /\ LabelAt(wtr[2].body[1].status, 1) = "Renamed"
    /\ LabelAt(wtr[2].body[1].item_type, 1) = "TreeIndex"

(***************************************************************************)
(* C3: null invariant.  As claimed: size and last_modification_time are    *)
(* each non-null exactly when the row is IndexWorktree and its metadata    *)
(* read succeeded, whatever the modification time is.                      *)
(***************************************************************************)
C3_NullIffReadable ==
    batch # Null =>
        \A i \in 1..Len(items) :
           LET readable == items[i].variant = IndexWorktree /\ stats[i].ok
           IN  /\ batch[1].size[i] # Null <=> readable
               /\ batch[1].last_modification_time[i] # Null <=> readable

\* C3 as amended: size is non-null exactly when the row is IndexWorktree and
\* its metadata read succeeded; last_modification_time is non-null exactly
\* when, in addition, the modification time is readable and not before the
\* epoch, and then holds its whole seconds.
C3_NullIffReadableAndTimeValid ==
    batch # Null =>
        \A i \in 1..Len(items) :
           LET readable == items[i].variant = IndexWorktree /\ stats[i].ok
               timed    == readable /\ stats[i].modified = "Ok" /\ stats[i].mtime.secs >= 0
           IN  /\ batch[1].size[i] # Null <=> readable
               /\ readable => batch[1].size[i] = Some(stats[i].len)
               /\ batch[1].last_modification_time[i] # Null <=> timed
               /\ timed => batch[1].last_modification_time[i] = Some(stats[i].mtime.secs)

\* A working-copy row whose metadata was read and whose modification time
\* lies before the epoch, beside a committed-tree row.
C3_Witness ==
    /\ batch # Null
    /\ Len(items) = 2
    /\ items[1].variant = IndexWorktree
    /\ stats[1].ok /\ stats[1].modified = "Ok" /\ stats[1].mtime.secs < 0
    /\ batch[1].size[1] = Some(42)
    /\ batch[1].last_modification_time[1] = Null
    /\ items[2].variant = TreeIndex
    /\ batch[1].size[2] = Null

(***************************************************************************)
(* C4: extension invariant.  As claimed: the entry is never null, it is    *)
(* the empty string exactly when the final path component holds no '.',    *)
(* and otherwise it is what follows the last '.' of that component.        *)
(***************************************************************************)
\* Position of the '/' before the final component of p (0 when none).
FinalStart(p) == CHOOSE s \in 0..Len(p) :
                    /\ s = 0 \/ p[s] = Slash
                    /\ \A j \in (s + 1)..Len(p) : p[j] # Slash
\* Positions of the last '.' of the final component of p (empty when none).
FinalDots(p) == {k \in (FinalStart(p) + 1)..Len(p) :
                    /\ p[k] = Dot
                    /\ \A j \in (k + 1)..Len(p) : p[j] # Dot}

C4_ExtensionAfterLastDot ==
    batch # Null =>
        \A i \in 1..Len(items) :
           LET p == items[i].path
               e == batch[1].extension[i]
           IN  /\ e # Null
               /\ e = Some(<<>>) <=> FinalDots(p) = {}
               /\ \A k \in FinalDots(p) : e = Some(SubSeq(p, k + 1, Len(p)))

\* C4 as amended: the entry is never null; it is what follows the last '.'
\* of the final path component when that '.' is not the component's first
\* character and what follows it is valid UTF-8; in every other case it is
\* the empty string.
C4_ExtensionAsPathExtension ==
    batch # Null =>
        \A i \in 1..Len(items) :
           LET p == items[i].path
               e == batch[1].extension[i]
               proper == {k \in FinalDots(p) :
                             /\ k > FinalStart(p) + 1
                             /\ \A j \in (k + 1)..Len(p) : p[j] # InvalidByte}
           IN  /\ e # Null
               /\ \A k \in proper : e = Some(SubSeq(p, k + 1, Len(p)))
               /\ proper = {} => e = Some(<<>>)

\* A dot-file: the final component starts with its only '.', and the row's
\* extension is the empty string.
C4_Witness ==
    /\ batch # Null
    /\ items[1].path = <<"a", Slash, Dot, "a">>
    /\ batch[1].extension[1] = Some(<<>>)

(***************************************************************************)
(* C5: stream framing.  On success the sink holds exactly the schema       *)
(* message, one body message with all rows, and the end marker, in this    *)
(* order; no body message precedes the schema message and nothing follows  *)
(* the end marker.                                                         *)
(***************************************************************************)
C5_StreamFraming ==
    /\ pc = "done" =>
         /\ Len(wtr) = 3
         /\ wtr[1] = SchemaMessage
         /\ wtr[2].msg = "batch" /\ wtr[2].rows = Len(items) /\ wtr[2].body = batch
         /\ wtr[3] = EndMarker
    /\ \A k \in 1..Len(wtr) :
         /\ wtr[k].msg = "schema" => k = 1
         /\ wtr[k].msg = "batch" => k = 2 /\ wtr[1].msg = "schema"
         /\ wtr[k].msg = "eos" => k = Len(wtr) /\ k = 3

\* The empty input was written successfully: the body message has no row.
C5_Witness ==
    /\ pc = "done"
    /\ items = <<>>
    /\ Len(wtr) = 3
    /\ wtr[2].msg = "batch" /\ wtr[2].rows = 0

(***************************************************************************)
(* C6: an acquisition failure (discovery, status computation, iterator     *)
(* creation or the retrieval of any record) ends the program with an       *)
(* error and nothing written; the sink is written only after every record  *)
(* was retrieved.                                                          *)
(***************************************************************************)
AcquisitionFailed == \E k \in FailedCalls : calls[k].op \in AcquisitionOps

C6_NoOutputOnAcquisitionFailure ==
    /\ AcquisitionFailed => pc = "error" /\ wtr = <<>> /\ batch = Null
    /\ pc \in {"discover", "status", "iter", "collect"} => wtr = <<>>
    /\ wtr # <<>> =>
         /\ ~AcquisitionFailed
         /\ Cardinality(CallsOf("next")) = Len(items)

\* The retrieval of the record after the first failed.
C6_Witness ==
    /\ pc = "error"
    /\ Len(items) = 1
    /\ calls[Len(calls)] = Call("next", 2, FALSE)
    /\ wtr = <<>>

(***************************************************************************)
(* C7: a failed metadata read of an IndexWorktree row is recovered         *)
(* locally: the operation goes on and returns no error on that account,    *)
(* the row is emitted with its path, status, item_type and extension and   *)
(* with null size and time, and every other row is what its own record     *)
(* and its own metadata read make it.                                      *)
(***************************************************************************)
\* Row i of a batch, as a tuple of its six entries.
RowAt(b, i) ==
    <<b.path[i], LabelAt(b.status, i), LabelAt(b.item_type, i), b.extension[i],
      b.size[i], b.last_modification_time[i]>>

\* The row a record makes, given the answer to its own metadata read only.
RowFrom(item, stat) ==
    LET entry == CHOOSE t \in ClassifierTable : t[1] = item.variant /\ t[2] = item.kind
        live  == item.variant = IndexWorktree /\ stat.ok
    IN  <<Some(ToStringLossy(item.path)), entry[3], item.variant, Some(Extension(item.path)),
          IF live THEN Some(stat.len) ELSE Null,
          IF live /\ stat.modified = "Ok" /\ stat.mtime.secs >= 0
          THEN Some(stat.mtime.secs) ELSE Null>>

MetadataFailedAt(i) == items[i].variant = IndexWorktree /\ ~stats[i].ok

C7_MetadataFailureIsLocal ==
    /\ \A k \in CallsOf("metadata") \cap FailedCalls :
         /\ calls[k].row < idx
         /\ Len(path_builder) >= calls[k].row
         /\ k = Len(calls) => pc = "loop"
    /\ pc = "error" => calls[Len(calls)].op # "metadata"
    /\ batch # Null =>
         \A i \in 1..Len(items) :
            MetadataFailedAt(i) =>
               /\ RowAt(batch[1], i)[1] = Some(ToStringLossy(items[i].path))
               /\ RowAt(batch[1], i)[3] = "IndexWorktree"
               /\ RowAt(batch[1], i) = RowFrom(items[i], MetadataErr)
               /\ RowAt(batch[1], i)[5] = Null
               /\ RowAt(batch[1], i)[6] = Null
               /\ \A j \in 1..Len(items) \ {i} :
                     RowAt(batch[1], j) = RowFrom(items[j], stats[j])

\* The stream was written although the first row's metadata read failed;
\* the second row's read succeeded.
C7_Witness ==
    /\ pc = "done"
    /\ Len(items) = 2
    /\ MetadataFailedAt(1)
    /\ items[2].variant = IndexWorktree /\ stats[2].ok
    /\ batch[1].size = <<Null, Some(42)>>

(***************************************************************************)
(* C8: each of the two dictionaries lists the distinct labels of its       *)
(* column in first-seen order without duplicate, the key of row i refers   *)
(* to the label of record i, the status dictionary has at most 9 entries   *)
(* and the item_type dictionary at most 2, and the two are independent.    *)
(***************************************************************************)
\* First row at which a label occurs in a column of labels.
FirstSeen(labels, l) == CHOOSE i \in 1..Len(labels) :
                            labels[i] = l /\ \A j \in 1..(i - 1) : labels[j] # l

IsDictionaryOf(col, labels) ==
    /\ Len(col.keys) = Len(labels)
    /\ Range(col.values) = Range(labels)
    /\ \A a, c \in 1..Len(col.values) : a # c => col.values[a] # col.values[c]
    /\ \A a, c \in 1..Len(col.values) :
         a < c => FirstSeen(labels, col.values[a]) < FirstSeen(labels, col.values[c])
    /\ \A i \in 1..Len(labels) :
         /\ col.keys[i] \in 0..(Len(col.values) - 1)
         /\ col.values[col.keys[i] + 1] = labels[i]

C8_Dictionaries ==
    batch # Null =>
        /\ IsDictionaryOf(batch[1].status,
                          [i \in 1..Len(items) |-> RowFrom(items[i], NoStat)[2]])
        /\ IsDictionaryOf(batch[1].item_type, [i \in 1..Len(items) |-> items[i].variant])
        /\ Len(batch[1].status.values) <= 9
        /\ Len(batch[1].item_type.values) <= 2
        /\ Range(batch[1].status.values) \subseteq StatusDto
        /\ Range(batch[1].item_type.values) \subseteq {"IndexWorktree", "TreeIndex"}

\* Three rows with two statuses and two families: each dictionary has two
\* entries, in first-seen order, and a repeated label reuses its key.
C8_Witness ==
    /\ batch # Null
    /\ Len(items) = 3
    /\ batch[1].status.values = <<"Added", "Untracked">>
    /\ batch[1].status.keys = <<0, 0, 1>>
    /\ batch[1].item_type.values = <<"TreeIndex", "IndexWorktree">>
    /\ batch[1].item_type.keys = <<0, 1, 1>>

(***************************************************************************)
(* C9: no retry.  One metadata read per IndexWorktree record and none per  *)
(* TreeIndex record, all before the first write to the sink; each of the   *)
(* schema, body and end-marker writes is attempted at most once; after a   *)
(* failed step the operation returns the error and attempts nothing more.  *)
(***************************************************************************)
C9_EveryStepOnce ==
    /\ \A i \in 1..Len(items) :
         Cardinality({k \in CallsOf("metadata") : calls[k].row = i}) =
            IF items[i].variant = IndexWorktree /\ i < idx THEN 1 ELSE 0
    /\ \A k \in CallsOf("metadata") : calls[k].row \in 1..Len(items)
    /\ \A k \in CallsOf("metadata") :
         \A j \in 1..(k - 1) : calls[j].op \notin SinkOps
    /\ wtr # <<>> => idx = Len(items) + 1
    /\ \A op \in SinkOps \cup {"batch", "discover", "status", "iter"} :
         Cardinality(CallsOf(op)) <= 1
    /\ \A k \in FailedCalls :
         calls[k].op # "metadata" => k = Len(calls) /\ pc = "error"
    /\ (\E k \in FailedCalls : calls[k].op # "metadata") =>
         \A k \in 1..Len(wtr) : wtr[k].msg # "eos"
    /\ pc = "done" => Cardinality(CallsOf("finish")) = 1

\* The body write failed after a metadata read and the schema write: the
\* program ended with the error and the end marker was not attempted.
C9_Witness ==
    /\ pc = "error"
    /\ CallsOf("metadata") # {}
    /\ calls[Len(calls)] = Call("write", 0, FALSE)
    /\ CallsOf("finish") = {}
    /\ wtr[1] = SchemaMessage

(***************************************************************************)
(* C10: status2json2writer writes, per record, one line holding the        *)
(* record's path and status and ending in one newline.  As claimed: a      *)
(* working-copy record and a committed-tree record never give the same     *)
(* line.                                                                   *)
(***************************************************************************)
LineHoldsPathAndStatus(n) ==
    LET dto == StatusItemDtoFrom(items[n])
    IN  /\ Occurs(<<Quote, "path", Quote, ":", Quote>> \o dto.path \o <<Quote>>, Line(n))
        /\ Occurs(<<Quote, "status", Quote, ":", Quote, dto.status, Quote>>, Line(n))

OneLinePerRecord ==
    /\ Cardinality(LineEnds) = Len(items) + 1
    /\ wtr # <<>> => wtr[Len(wtr)] = Newline
    /\ \A n \in 1..Len(items) : LineHoldsPathAndStatus(n)

C10_FamilyTellsLinesApart ==
    pc = "json" =>
        /\ OneLinePerRecord
        /\ \A m, n \in 1..Len(items) :
             items[m].variant # items[n].variant => Line(m) # Line(n)

\* C10 as amended: one line per record, holding its path and status and
\* ending in one newline; the line is fixed by the path and the status
\* alone, so two records of different families with the same path and
\* status give the same line.
C10_LineFixedByPathAndStatus ==
    pc = "json" =>
        /\ OneLinePerRecord
        /\ \A m, n \in 1..Len(items) :
             Line(m) = Line(n) <=>
                /\ ToStringLossy(items[m].path) = ToStringLossy(items[n].path)
                /\ RowFrom(items[m], NoStat)[2] = RowFrom(items[n], NoStat)[2]

\* A working-copy record and a committed-tree record with the same path and
\* status were written, and their lines are equal.
C10_Witness ==
    /\ pc = "json"
    /\ Len(items) = 2
    /\ items[1] = [variant |-> IndexWorktree, kind |-> "Added", path |-> items[2].path]
    /\ items[2].variant = TreeIndex /\ items[2].kind = "Addition"
    /\ Line(1) = Line(2)
    /\ Len(wtr) = 2 * (Len(Line(1)) + 1)

====
